---- MODULE Spec2Model ----
(***************************************************************************)
(* Model of iotdb/utils/exception.py: the three exception classes of the   *)
(* IoTDB Python client (IoTDBConnectionException,                          *)
(* StatementExecutionException, RedirectException) and what each           *)
(* constructor leaves in the constructed object.                           *)
(*                                                                         *)
(* Python values are records of one shape, [tag, text, num, items]:        *)
(*   tag   the Python type's name,                                         *)
(*   text  the characters of a str, the ip of a TEndPoint,                 *)
(*   num   the value of an int, the port of a TEndPoint,                   *)
(*   items the members of a container, a TSStatus' (code, message), an     *)
(*         exception's args.                                               *)
(***************************************************************************)
EXTENDS Integers, Sequences, FiniteSets, TLC

\* ------------------------------------------------------------- bounds

\* Largest number of entries of a device-to-endpoint dict.
MaxDevices == 2

\* Largest length of a list of endpoints handed to RedirectException.
MaxListLen == 2

\* ------------------------------------------------------ Python values

V(tag, text, num, items) ==
    [tag |-> tag, text |-> text, num |-> num, items |-> items]

None == V("NoneType", "", 0, <<>>)

StrV(s) == V("str", s, 0, <<>>)

IntV(n) == V("int", "", n, <<>>)

TupleV(items) == V("tuple", "", 0, items)

ListV(items) == V("list", "", 0, items)

\* A dict in insertion order: items are (key, value) tuples, keys distinct.
DictV(pairs) == V("dict", "", 0, pairs)

\* A lower-level error, Exception(msg): its args are (msg,).
ExcV(msg) == V("Exception", "", 0, <<StrV(msg)>>)

\* The thrift struct TEndPoint(ip, port).
TEndPoint(ip, port) == V("TEndPoint", ip, port, <<>>)

\* The thrift struct TSStatus(code, message): status.code, status.message.
TSStatus(code, message) == V("TSStatus", "", 0, <<IntV(code), message>>)

\* An attribute the constructor never assigned (reading it raises
\* AttributeError); distinct from an attribute that holds None.
Unset == V("<unset>", "", 0, <<>>)

isinstance(v, cls) == v.tag = cls

\* ---------------------------------------------- str(), repr(), format

RECURSIVE JoinRepr(_, _)

\* repr(v) for the values that reach an exception's args.
PyRepr(v) ==
    CASE v.tag = "str" -> "'" \o v.text \o "'"
      [] v.tag = "NoneType" -> "None"
      [] v.tag = "int" -> ToString(v.num)
      [] v.tag = "Exception" -> "Exception(" \o JoinRepr(v.items, 1) \o ")"
      [] v.tag = "tuple" -> "(" \o JoinRepr(v.items, 1) \o ")"
      [] OTHER -> "<" \o v.tag \o ">"

JoinRepr(items, i) ==
    IF i > Len(items) THEN ""
    ELSE IF i = Len(items) THEN PyRepr(items[i])
    ELSE PyRepr(items[i]) \o ", " \o JoinRepr(items, i + 1)

RECURSIVE PyStr(_)

\* str(v): a str is itself, an exception follows BaseException.__str__,
\* everything else prints as its repr.
PyStr(v) ==
    CASE v.tag = "str" -> v.text
      [] v.tag = "Exception" ->
            IF Len(v.items) = 0 THEN ""
            ELSE IF Len(v.items) = 1 THEN PyStr(v.items[1])
            ELSE PyRepr(TupleV(v.items))
      [] OTHER -> PyRepr(v)

\* BaseException.__str__ on the args the constructor handed to
\* super().__init__: no args "", one arg str(arg), more str(tuple).
Exception_str(args) ==
    IF Len(args) = 0 THEN ""
    ELSE IF Len(args) = 1 THEN PyStr(args[1])
    ELSE PyRepr(TupleV(args))

\* f"{status.code}: {status.message}"
FormatStatus(status) ==
    PyStr(status.items[1]) \o ": " \o PyStr(status.items[2])

\* ------------------------------------------------ constructed objects

\* An exception object: its class, Exception.args, the branch of __init__
\* that built it, its two optional attributes, and the error __init__
\* itself raised instead of returning ("" when it returned).
Obj(cls, branch, args, node, mapping, error) ==
    [cls |-> cls, branch |-> branch, args |-> args,
     redirect_node |-> node, device_to_endpoint |-> mapping,
     error |-> error]

NoObj == Obj("", "", <<>>, Unset, Unset, "")

Mut_IoTDBConnectionException_CauseFirst(reason, cause, message) ==
    IF cause # None
    THEN Obj("IoTDBConnectionException", "cause", <<cause>>, Unset, Unset, "")
    ELSE IF reason # None
    THEN Obj("IoTDBConnectionException", "reason", <<reason>>, Unset, Unset, "")
    ELSE Obj("IoTDBConnectionException", "empty", <<>>, Unset, Unset, "")

Mut_IoTDBConnectionException_MessageKept(reason, cause, message) ==
    IF reason # None
    THEN Obj("IoTDBConnectionException", "reason", <<reason>>, Unset, Unset, "")
    ELSE IF cause # None
    THEN Obj("IoTDBConnectionException", "cause", <<cause>>, Unset, Unset, "")
    ELSE IF message # None
    THEN Obj("IoTDBConnectionException", "message", <<message>>, Unset, Unset, "")
    ELSE Obj("IoTDBConnectionException", "empty", <<>>, Unset, Unset, "")

Mut_IoTDBConnectionException_MessageWithCause(reason, cause, message) ==
    IF reason # None
    THEN Obj("IoTDBConnectionException", "reason", <<reason>>, Unset, Unset, "")
    ELSE IF cause # None /\ message = None
    THEN Obj("IoTDBConnectionException", "cause", <<cause>>, Unset, Unset, "")
    ELSE IF message # None /\ cause # None
    THEN Obj("IoTDBConnectionException", "message_cause",
             <<message, cause>>, Unset, Unset, "")
    ELSE Obj("IoTDBConnectionException", "empty", <<>>, Unset, Unset, "")

Mut_IoTDBConnectionException_MessageCauseFirst(reason, cause, message) ==
    IF reason # None
    THEN Obj("IoTDBConnectionException", "reason", <<reason>>, Unset, Unset, "")
    ELSE IF message # None /\ cause # None
    THEN Obj("IoTDBConnectionException", "message_cause",
             <<message, cause>>, Unset, Unset, "")
    ELSE IF cause # None
    THEN Obj("IoTDBConnectionException", "cause", <<cause>>, Unset, Unset, "")
    ELSE Obj("IoTDBConnectionException", "empty", <<>>, Unset, Unset, "")

\* IoTDBConnectionException.__init__(self, reason=None, cause=None,
\* message=None)
IoTDBConnectionException_init(reason, cause, message) ==
    IF reason # None
    THEN Obj("IoTDBConnectionException", "reason", <<reason>>, Unset, Unset, "")
    ELSE IF cause # None
    THEN Obj("IoTDBConnectionException", "cause", <<cause>>, Unset, Unset, "")
    ELSE IF message # None /\ cause # None
    THEN Obj("IoTDBConnectionException", "message_cause",
             <<message, cause>>, Unset, Unset, "")
    ELSE Obj("IoTDBConnectionException", "empty", <<>>, Unset, Unset, "")

Mut_StatementExecutionException_MessageWins(status, message) ==
    IF message # None
    THEN Obj("StatementExecutionException", "message", <<message>>,
             Unset, Unset, "")
    ELSE IF status # None
    THEN IF isinstance(status, "TSStatus")
         THEN Obj("StatementExecutionException", "status",
                  <<StrV(FormatStatus(status))>>, Unset, Unset, "")
         ELSE Obj("StatementExecutionException", "status", <<>>,
                  Unset, Unset, "AttributeError")
    ELSE Obj("StatementExecutionException", "empty", <<>>, Unset, Unset, "")

Mut_StatementExecutionException_MessagePrefixed(status, message) ==
    IF status # None
    THEN IF isinstance(status, "TSStatus")
         THEN Obj("StatementExecutionException", "status",
                  <<StrV(FormatStatus(status))>>, Unset, Unset, "")
         ELSE Obj("StatementExecutionException", "status", <<>>,
                  Unset, Unset, "AttributeError")
    ELSE IF message # None
    THEN Obj("StatementExecutionException", "message",
             <<StrV("None: " \o PyStr(message))>>, Unset, Unset, "")
    ELSE Obj("StatementExecutionException", "empty", <<>>, Unset, Unset, "")

\* StatementExecutionException.__init__(self, status=None, message=None).
\* status.code on a status that is no TSStatus raises AttributeError
\* before super().__init__ runs.
StatementExecutionException_init(status, message) ==
    IF status # None
    THEN IF isinstance(status, "TSStatus")
         THEN Obj("StatementExecutionException", "status",
                  <<StrV(FormatStatus(status))>>, Unset, Unset, "")
         ELSE Obj("StatementExecutionException", "status", <<>>,
                  Unset, Unset, "AttributeError")
    ELSE IF message # None
    THEN Obj("StatementExecutionException", "message", <<message>>,
             Unset, Unset, "")
    ELSE Obj("StatementExecutionException", "empty", <<>>, Unset, Unset, "")

Mut_RedirectException_NodeNone(redirect_info) ==
    IF isinstance(redirect_info, "TEndPoint")
    THEN Obj("RedirectException", "node", <<>>, redirect_info, Unset, "")
    ELSE Obj("RedirectException", "mapping", <<>>, None, redirect_info, "")

Mut_RedirectException_Swapped(redirect_info) ==
    IF isinstance(redirect_info, "TEndPoint")
    THEN Obj("RedirectException", "mapping", <<>>, Unset, redirect_info, "")
    ELSE Obj("RedirectException", "node", <<>>, redirect_info, Unset, "")

Mut_RedirectException_Validating(redirect_info) ==
    IF isinstance(redirect_info, "TEndPoint")
    THEN Obj("RedirectException", "node", <<>>, redirect_info, Unset, "")
    ELSE IF isinstance(redirect_info, "dict")
    THEN Obj("RedirectException", "mapping", <<>>, Unset, redirect_info, "")
    ELSE Obj("RedirectException", "mapping", <<>>, Unset, Unset, "TypeError")

Mut_RedirectException_FirstEntryOnly(redirect_info) ==
    IF isinstance(redirect_info, "TEndPoint")
    THEN Obj("RedirectException", "node", <<>>, redirect_info, Unset, "")
    ELSE IF isinstance(redirect_info, "dict")
            /\ Len(redirect_info.items) > 1
    THEN Obj("RedirectException", "mapping", <<>>, Unset,
             DictV(<<redirect_info.items[1]>>), "")
    ELSE Obj("RedirectException", "mapping", <<>>, Unset, redirect_info, "")

\* RedirectException.__init__(self, redirect_info): Exception.__init__(self)
\* leaves args empty, then exactly one attribute is assigned.
RedirectException_init(redirect_info) ==
    IF isinstance(redirect_info, "TEndPoint")
    THEN Obj("RedirectException", "node", <<>>, redirect_info, Unset, "")
    ELSE Obj("RedirectException", "mapping", <<>>, Unset, redirect_info, "")

\* ------------------------------------------------------------- inputs

Texts == {"", "timeout", "execution failed"}

Strs == {StrV(t) : t \in Texts}

\* Lower-level errors a transport hands over.
Errors == {ExcV("socket closed"), ExcV("")}

\* reason: callers pass a text or, positionally, the caught error itself.
Reasons == {None} \cup Strs \cup Errors

Causes == {None} \cup Errors

Messages == {None} \cup Strs

StatusCodes == {-1, 0, 200, 300}

\* TSStatus.message is optional in the thrift struct.
Statuses == {TSStatus(c, m) : c \in StatusCodes, m \in Strs \cup {None}}

\* status: None, a TSStatus, or (a message passed positionally) a str.
StatusArgs == {None} \cup Statuses \cup {StrV("execution failed")}

EndPoints == {TEndPoint("127.0.0.1", 6667), TEndPoint("10.0.0.2", 6668)}

Devices == {"root.sg.d" \o ToString(i) : i \in 1..MaxDevices}

Entries == {TupleV(<<StrV(d), e>>) : d \in Devices, e \in EndPoints}

SeqsUpTo(S, n) == UNION {[1..k -> S] : k \in 0..n}

KeysDistinct(pairs) ==
    \A i, j \in 1..Len(pairs) :
        i # j => pairs[i].items[1] # pairs[j].items[1]

\* Device-to-endpoint dicts, the empty one included.
Mappings ==
    {DictV(p) : p \in {q \in SeqsUpTo(Entries, MaxDevices) : KeysDistinct(q)}}

EndPointLists == {ListV(l) : l \in SeqsUpTo(EndPoints, MaxListLen)}

RedirectInfos ==
    EndPoints \cup Mappings \cup EndPointLists \cup {None, StrV("timeout")}

NoCall == [reason |-> None, cause |-> None, message |-> None,
           status |-> None, redirect_info |-> None]

\* -------------------------------------------------------------- state

VARIABLES
    call, \* the arguments of the latest constructor call
    exc   \* the object that call constructed

vars == <<call, exc>>

Init ==
    /\ call = NoCall
    /\ exc = NoObj

\* raise IoTDBConnectionException(reason, cause, message)
NewIoTDBConnectionException ==
    \E reason \in Reasons, cause \in Causes, message \in Messages :
        /\ call' = [NoCall EXCEPT !.reason = reason, !.cause = cause,
                                  !.message = message]
        /\ exc' = IoTDBConnectionException_init(reason, cause, message)

\* raise StatementExecutionException(status, message)
NewStatementExecutionException ==
    \E status \in StatusArgs, message \in Messages :
        /\ call' = [NoCall EXCEPT !.status = status, !.message = message]
        /\ exc' = StatementExecutionException_init(status, message)

\* raise RedirectException(redirect_info)
NewRedirectException ==
    \E redirect_info \in RedirectInfos :
        /\ call' = [NoCall EXCEPT !.redirect_info = redirect_info]
        /\ exc' = RedirectException_init(redirect_info)

Next ==
    \/ NewIoTDBConnectionException
    \/ NewStatementExecutionException
    \/ NewRedirectException

Spec == Init /\ [][Next]_vars

\* str(exc) of the latest constructed object.
Text == Exception_str(exc.args)

Constructed(cls) == exc.cls = cls /\ exc.error = ""

\* ------------------------------------------------------------- claims

\* C1: an IoTDBConnectionException built with a reason that is not None
\* carries the reason alone, whatever cause and message are: its args are
\* (reason,) and its text is str(reason), the reason itself when it is a str.
C1_ReasonAlone ==
    (Constructed("IoTDBConnectionException") /\ call.reason # None) =>
        /\ exc.args = <<call.reason>>
        /\ Text = PyStr(call.reason)
        /\ isinstance(call.reason, "str") => Text = call.reason.text

C1_Witness ==
    /\ Constructed("IoTDBConnectionException")
    /\ call.reason = StrV("timeout")
    /\ call.cause = ExcV("socket closed")
    /\ call.message = StrV("execution failed")
    /\ Text = "timeout"

\* C2: a StatementExecutionException built from a TSStatus has the text
\* "<code>: <status.message>", whatever the separate message argument is.
C2_StatusText ==
    (exc.cls = "StatementExecutionException"
        /\ isinstance(call.status, "TSStatus")) =>
        LET code == call.status.items[1].num
            msg == call.status.items[2]
        IN  /\ exc.error = ""
            /\ Len(exc.args) = 1
            /\ Text = ToString(code) \o ": "
                        \o (IF msg = None THEN "None" ELSE msg.text)

C2_Witness ==
    /\ Constructed("StatementExecutionException")
    /\ call.status = TSStatus(300, StrV("execution failed"))
    /\ call.message = StrV("timeout")
    /\ Text = "300: execution failed"

\* C3: every constructed RedirectException has exactly one of the attributes
\* redirect_node and device_to_endpoint assigned, never both, never neither.
C3_ExactlyOneField ==
    Constructed("RedirectException") =>
        (exc.redirect_node # Unset) # (exc.device_to_endpoint # Unset)

C3_Witness ==
    /\ Constructed("RedirectException")
    /\ call.redirect_info = None
    /\ exc.redirect_node = Unset
    /\ exc.device_to_endpoint # Unset

\* C4: an IoTDBConnectionException built with a message only (reason and
\* cause None) carries nothing: no args, empty text, the same object as
\* one built with all three inputs None.
C4_MessageOnlyDropped ==
    (Constructed("IoTDBConnectionException") /\ call.reason = None
        /\ call.cause = None /\ call.message # None) =>
        /\ exc.args = <<>>
        /\ Text = ""
        /\ exc = IoTDBConnectionException_init(None, None, None)

C4_Witness ==
    /\ Constructed("IoTDBConnectionException")
    /\ call.reason = None
    /\ call.cause = None
    /\ call.message = StrV("timeout")
    /\ exc.args = <<>>

\* C5: an IoTDBConnectionException built with reason None and a cause that
\* is not None has the text str(cause), whatever message is; message is not
\* part of its args.
C5_CauseText ==
    (Constructed("IoTDBConnectionException") /\ call.reason = None
        /\ call.cause # None) =>
        /\ exc.args = <<call.cause>>
        /\ Text = PyStr(call.cause)

C5_Witness ==
    /\ Constructed("IoTDBConnectionException")
    /\ call.reason = None
    /\ call.cause = ExcV("socket closed")
    /\ call.message = StrV("timeout")
    /\ Text = "socket closed"

\* C6: RedirectException(E) for a TEndPoint E has redirect_node = E and no
\* device_to_endpoint.
C6_EndpointStored ==
    (Constructed("RedirectException")
        /\ isinstance(call.redirect_info, "TEndPoint")) =>
        /\ exc.redirect_node = call.redirect_info
        /\ exc.device_to_endpoint = Unset

C6_Witness ==
    /\ Constructed("RedirectException")
    /\ call.redirect_info = TEndPoint("10.0.0.2", 6668)
    /\ exc.redirect_node = TEndPoint("10.0.0.2", 6668)

\* C7: RedirectException(M) for a dict M from device id to TEndPoint, the
\* empty dict included, has device_to_endpoint = M, entry for entry, and no
\* redirect_node.
C7_MappingStored ==
    (Constructed("RedirectException")
        /\ isinstance(call.redirect_info, "dict")) =>
        /\ exc.device_to_endpoint = call.redirect_info
        /\ exc.device_to_endpoint.items = call.redirect_info.items
        /\ exc.redirect_node = Unset

C7_Witness ==
    /\ Constructed("RedirectException")
    /\ isinstance(call.redirect_info, "dict")
    /\ Len(call.redirect_info.items) = 2
    /\ Len(exc.device_to_endpoint.items) = 2

\* C8: a StatementExecutionException built with status None and a message
\* that is not None has exactly that message as its text.
C8_MessageText ==
    (exc.cls = "StatementExecutionException" /\ call.status = None
        /\ call.message # None) =>
        /\ exc.error = ""
        /\ exc.args = <<call.message>>
        /\ Text = call.message.text

C8_Witness ==
    /\ Constructed("StatementExecutionException")
    /\ call.status = None
    /\ call.message = StrV("execution failed")
    /\ Text = "execution failed"

\* C9: RedirectException never rejects an input, and every redirect_info
\* that is no TEndPoint (a dict, None, a str, a list of endpoints) is
\* stored unchanged as device_to_endpoint.
C9_NoValidation ==
    exc.cls = "RedirectException" =>
        /\ exc.error = ""
        /\ ~isinstance(call.redirect_info, "TEndPoint") =>
              /\ exc.device_to_endpoint = call.redirect_info
              /\ exc.redirect_node = Unset

C9_Witness ==
    /\ Constructed("RedirectException")
    /\ isinstance(call.redirect_info, "list")
    /\ Len(call.redirect_info.items) = 2
    /\ exc.device_to_endpoint = call.redirect_info

\* C10: no IoTDBConnectionException carries (message, cause): the branch
\* that would hand both to super().__init__ is never taken.
C10_MessageCauseBranchDead ==
    exc.cls = "IoTDBConnectionException" =>
        /\ exc.branch # "message_cause"
        /\ Len(exc.args) <= 1

C10_Witness ==
    /\ exc.cls = "IoTDBConnectionException"
    /\ call.reason = None
    /\ call.cause # None
    /\ call.message # None
    /\ exc.branch = "cause"

====
